---- MODULE Spec2Model ----
(***************************************************************************)
(* Model of the MEXC adapter of barter-data (src/exchange/mexc): the       *)
(* identifier construction, the subscription request builder and the two   *)
(* event mappers (public trades, top of book).                              *)
(*                                                                         *)
(* The adapter holds no state between calls, so the state of the model is  *)
(* the call in progress: `call` is the operation with its arguments (and   *)
(* the values the environment supplied to it: the clock reading, the       *)
(* outcome of the JSON serializer) and `ret` is the value it returned,     *)
(* under the name of what was asked for.                                   *)
(*                                                                         *)
(* Text is modelled as a sequence of one-character strings, so that        *)
(* formatting, parsing, upper-casing and concatenation are computed.       *)
(***************************************************************************)
EXTENDS Integers, Sequences, FiniteSets, TLC

VARIABLES call, ret

vars == <<call, ret>>

(***************************************************************************)
(* Bounds of the model.                                                    *)
(***************************************************************************)
\* longest trade batch of an envelope
MaxDeals == 3
\* longest list handed to requests()
MaxSubs == 2
\* largest trade_type code tried (besides the i32 extremes)
MaxTradeType == 4
\* largest subscription map handed to expected_responses()
MaxEntries == 3
\* stand-in for the largest millisecond value chrono's DateTime<Utc> can
\* represent (8_210_266_876_799_999 in chrono): values above it make
\* DateTime::from_timestamp_millis return None
ChronoMaxMs == 2500

(***************************************************************************)
(* Text helpers.                                                           *)
(***************************************************************************)
Digits == <<"0", "1", "2", "3", "4", "5", "6", "7", "8", "9">>

LowerLetters == <<"a", "b", "c", "d", "e", "f", "g", "h", "i", "j", "k", "l", "m",
                  "n", "o", "p", "q", "r", "s", "t", "u", "v", "w", "x", "y", "z">>

UpperLetters == <<"A", "B", "C", "D", "E", "F", "G", "H", "I", "J", "K", "L", "M",
                  "N", "O", "P", "Q", "R", "S", "T", "U", "V", "W", "X", "Y", "Z">>

IndexIn(c, alphabet) ==
    IF \E i \in 1..Len(alphabet) : alphabet[i] = c
    THEN CHOOSE i \in 1..Len(alphabet) : alphabet[i] = c
    ELSE 0

IsDigit(c) == IndexIn(c, Digits) # 0

DigitVal(c) == IndexIn(c, Digits) - 1

\* char::to_ascii_lowercase, as used by the case-insensitive float keywords
LowerChar(c) ==
    IF IndexIn(c, UpperLetters) # 0 THEN LowerLetters[IndexIn(c, UpperLetters)] ELSE c

ToLowercase(s) == [i \in 1..Len(s) |-> LowerChar(s[i])]

\* i64 / i32 Display: the decimal text of an integer
RECURSIVE NatToString(_)
NatToString(n) ==
    IF n < 10 THEN <<Digits[n + 1]>>
    ELSE NatToString(n \div 10) \o <<Digits[(n % 10) + 1]>>

to_string(n) == IF n < 0 THEN <<"-">> \o NatToString(-n) ELSE NatToString(n)

\* value of a non-empty run of decimal digits
RECURSIVE DigitsValue(_)
DigitsValue(s) ==
    IF s = <<>> THEN 0
    ELSE DigitsValue(SubSeq(s, 1, Len(s) - 1)) * 10 + DigitVal(s[Len(s)])

AllDigits(s) == \A i \in 1..Len(s) : IsDigit(s[i])

\* position of the first "." of s, or 0
DotIndex(s) ==
    IF \E i \in 1..Len(s) : s[i] = "."
    THEN CHOOSE i \in 1..Len(s) : s[i] = "." /\ \A j \in 1..(i - 1) : s[j] # "."
    ELSE 0

\* Option
None == [tag |-> "None"]

Some(v) == [tag |-> "Some", val |-> v]

\* Result
Ok(v) == [tag |-> "Ok", val |-> v]

\* every error of the adapter is DataError::Socket(String); the message is kept
\* as its format string, the formatted raw value and the formatted cause
SocketError(fmt, raw, cause) ==
    [tag |-> "Err", val |-> [variant |-> "Socket", fmt |-> fmt, raw |-> raw, cause |-> cause]]

IsOk(r) == r.tag = "Ok"

IsErr(r) == r.tag = "Err"

(***************************************************************************)
(* str::parse::<f64>() (core::num::dec2flt), without exponents: the texts  *)
(* of the model hold no "e"/"E" after a digit.  A float is kept as its     *)
(* class, its sign and, when finite, the decimal mant / 10^scale.          *)
(***************************************************************************)
F64(class, neg, mant, scale) == [class |-> class, neg |-> neg, mant |-> mant, scale |-> scale]

\* the unsigned part of a float literal: digits [ "." digits ] with at least one
\* digit, or one of the keywords inf / infinity / nan in any case
ParseF64Unsigned(s, neg) ==
    LET dot  == DotIndex(s)
        int  == IF dot = 0 THEN s ELSE SubSeq(s, 1, dot - 1)
        frac == IF dot = 0 THEN <<>> ELSE SubSeq(s, dot + 1, Len(s))
        low  == ToLowercase(s)
    IN  IF AllDigits(int) /\ AllDigits(frac) /\ Len(int) + Len(frac) > 0
        THEN Ok(F64("finite", neg, DigitsValue(int \o frac), Len(frac)))
        ELSE IF low = <<"i", "n", "f">> \/ low = <<"i", "n", "f", "i", "n", "i", "t", "y">>
        THEN Ok(F64("inf", neg, 0, 0))
        ELSE IF low = <<"n", "a", "n">>
        THEN Ok(F64("nan", neg, 0, 0))
        ELSE [tag |-> "Err", val |-> "invalid float literal"]

ParseF64(s) ==
    IF s = <<>> THEN [tag |-> "Err", val |-> "cannot parse float from empty string"]
    ELSE IF s[1] \in {"+", "-"}
    THEN IF Len(s) = 1 THEN [tag |-> "Err", val |-> "invalid float literal"]
         ELSE ParseF64Unsigned(Tail(s), s[1] = "-")
    ELSE ParseF64Unsigned(s, FALSE)

IsFinite(f) == f.class = "finite"

\* f >= 0.0 in IEEE-754: false for NaN, true for -0.0
IsNonNegative(f) ==
    \/ f.class = "inf" /\ ~f.neg
    \/ f.class = "finite" /\ (~f.neg \/ f.mant = 0)

(***************************************************************************)
(* trade.rs: side and timestamp helpers.                                   *)
(***************************************************************************)
mexc_trade_type_to_side_NoSell(trade_type) ==
    IF trade_type = 1 THEN Ok("Buy")
    ELSE IF trade_type = 2 THEN Ok("Buy")
    ELSE SocketError("Unsupported MexcTrade::Side: unknown trade_type: {}",
                     to_string(trade_type), <<>>)

mexc_trade_type_to_side(trade_type) ==
    IF trade_type = 1 THEN Ok("Buy")
    ELSE IF trade_type = 2 THEN Ok("Sell")
    ELSE SocketError("Unsupported MexcTrade::Side: unknown trade_type: {}",
                     to_string(trade_type), <<>>)

\* DateTime::<Utc>::from_timestamp_millis: seconds and nanoseconds since the
\* Unix epoch (Euclidean division), None outside chrono's range
from_timestamp_millis(ms) ==
    IF ms > ChronoMaxMs \/ ms < -ChronoMaxMs THEN None
    ELSE Some([secs |-> ms \div 1000, nsecs |-> (ms % 1000) * 1000000])

trade_ms_epoch_to_datetime_utc_NoNegativeCheck(ms) ==
    LET dt == from_timestamp_millis(ms)
    IN  IF dt.tag = "Some" THEN Ok(dt.val)
        ELSE SocketError("Unsupported MexcTrade::Timestamp: invalid unix_epoch_ms: {}",
                         to_string(ms), <<>>)

trade_ms_epoch_to_datetime_utc(ms) ==
    IF ms < 0
    THEN SocketError("Unsupported MexcTrade::Timestamp: invalid unix_epoch_ms (negative): {}",
                     to_string(ms), <<>>)
    ELSE LET dt == from_timestamp_millis(ms)
         IN  IF dt.tag = "Some" THEN Ok(dt.val)
             ELSE SocketError("Unsupported MexcTrade::Timestamp: invalid unix_epoch_ms: {}",
                              to_string(ms), <<>>)

\* milliseconds since the Unix epoch of an instant
InstantMs(dt) == dt.secs * 1000 + dt.nsecs \div 1000000

(***************************************************************************)
(* trade.rs: one trade item to one result.  The checks run in the order of *)
(* the `?` operators: price, quantity, trade type, time.                   *)
(***************************************************************************)
MarketEventTrade(exchange_id, instrument, deal_item, time_received, price, amount, side, exchange_time) ==
    [time_exchange |-> exchange_time,
     time_received |-> time_received,
     exchange      |-> exchange_id,
     instrument    |-> instrument,
     kind          |-> [id     |-> to_string(deal_item.time),
                        price  |-> price,
                        amount |-> amount,
                        side   |-> side]]

\* an item mapper that converts the time before it looks at the trade type
MapDealItem_TimeBeforeSide(exchange_id, instrument, deal_item, time_received, price_fmt, quantity_fmt) ==
    LET price == ParseF64(deal_item.price)
        amount == ParseF64(deal_item.quantity)
        side == mexc_trade_type_to_side(deal_item.trade_type)
        exchange_time == trade_ms_epoch_to_datetime_utc(deal_item.time)
    IN  IF IsErr(price) THEN SocketError(price_fmt, deal_item.price, price.val)
        ELSE IF IsErr(amount) THEN SocketError(quantity_fmt, deal_item.quantity, amount.val)
        ELSE IF IsErr(exchange_time) THEN exchange_time
        ELSE IF IsErr(side) THEN side
        ELSE Ok(MarketEventTrade(exchange_id, instrument, deal_item, time_received,
                                 price.val, amount.val, side.val, exchange_time.val))

\* the body shared by the two item mappers, which differ in their messages only
MapDealItem(exchange_id, instrument, deal_item, time_received, price_fmt, quantity_fmt) ==
    LET price == ParseF64(deal_item.price)
        amount == ParseF64(deal_item.quantity)
        side == mexc_trade_type_to_side(deal_item.trade_type)
        exchange_time == trade_ms_epoch_to_datetime_utc(deal_item.time)
    IN  IF IsErr(price) THEN SocketError(price_fmt, deal_item.price, price.val)
        ELSE IF IsErr(amount) THEN SocketError(quantity_fmt, deal_item.quantity, amount.val)
        ELSE IF IsErr(side) THEN side
        ELSE IF IsErr(exchange_time) THEN exchange_time
        ELSE Ok(MarketEventTrade(exchange_id, instrument, deal_item, time_received,
                                 price.val, amount.val, side.val, exchange_time.val))

map_public_deals_item_to_market_event(exchange_id, instrument, deal_item, time_received) ==
    MapDealItem(exchange_id, instrument, deal_item, time_received,
                "Failed to parse price from MEXC deal: '{}', error: {}",
                "Failed to parse quantity from MEXC deal: '{}', error: {}")

map_public_aggre_deals_item_to_market_event(exchange_id, instrument, deal_item, time_received) ==
    MapDealItem(exchange_id, instrument, deal_item, time_received,
                "Failed to parse price from MEXC aggregated deal: '{}', error: {}",
                "Failed to parse quantity from MEXC aggregated deal: '{}', error: {}")

MapItemOfBody(body_kind, exchange_id, instrument, deal_item, time_received) ==
    IF body_kind = "PublicDeals"
    THEN map_public_deals_item_to_market_event(exchange_id, instrument, deal_item, time_received)
    ELSE map_public_aggre_deals_item_to_market_event(exchange_id, instrument, deal_item,
                                                     time_received)

\* the `for deal_item in deals { market_events.push(map(deal_item)) }` loops
RECURSIVE PushDeals(_, _, _, _, _, _)
PushDeals(body_kind, exchange_id, instrument, deals, time_received, market_events) ==
    IF deals = <<>> THEN market_events
    ELSE PushDeals(body_kind, exchange_id, instrument, Tail(deals), time_received,
                   Append(market_events,
                          MapItemOfBody(body_kind, exchange_id, instrument, Head(deals),
                                        time_received)))

\* a loop that gives up at the first item that fails
RECURSIVE PushDealsUntilError(_, _, _, _, _, _)
PushDealsUntilError(body_kind, exchange_id, instrument, deals, time_received, market_events) ==
    IF deals = <<>> THEN market_events
    ELSE LET result == MapItemOfBody(body_kind, exchange_id, instrument, Head(deals),
                                     time_received)
         IN  IF IsErr(result) THEN Append(market_events, result)
             ELSE PushDealsUntilError(body_kind, exchange_id, instrument, Tail(deals),
                                      time_received, Append(market_events, result))

TradesFrom_AbortOnError(exchange_id, instrument, wrapper, time_received) ==
    IF wrapper.body.kind \in {"PublicDeals", "PublicAggreDeals"}
    THEN PushDealsUntilError(wrapper.body.kind, exchange_id, instrument, wrapper.body.deals,
                             time_received, <<>>)
    ELSE <<>>

TradesFrom_KlineAsError(exchange_id, instrument, wrapper, time_received) ==
    IF wrapper.body.kind \in {"PublicDeals", "PublicAggreDeals"}
    THEN PushDeals(wrapper.body.kind, exchange_id, instrument, wrapper.body.deals,
                   time_received, <<>>)
    ELSE IF wrapper.body.kind = "None" THEN <<>>
    ELSE <<SocketError("Unsupported MEXC message body: {}", <<>>, <<>>)>>

\* a mapper that stamps trades with the envelope's send_time when it has one
TradesFrom_EnvelopeTime(exchange_id, instrument, wrapper, time_received) ==
    LET pushed == IF wrapper.body.kind \in {"PublicDeals", "PublicAggreDeals"}
                  THEN PushDeals(wrapper.body.kind, exchange_id, instrument,
                                 wrapper.body.deals, time_received, <<>>)
                  ELSE <<>>
        sent == IF wrapper.send_time.tag = "Some" /\ wrapper.send_time.val >= 0
                THEN from_timestamp_millis(wrapper.send_time.val)
                ELSE None
    IN  [i \in 1..Len(pushed) |->
            IF IsOk(pushed[i]) /\ sent.tag = "Some"
            THEN Ok([pushed[i].val EXCEPT !.time_exchange = sent.val])
            ELSE pushed[i]]

\* From<(ExchangeId, InstrumentKey, PushDataV3ApiWrapper)> for
\* MarketIter<InstrumentKey, PublicTrade>
TradesFrom(exchange_id, instrument, wrapper, time_received) ==
    IF wrapper.body.kind \in {"PublicDeals", "PublicAggreDeals"}
    THEN PushDeals(wrapper.body.kind, exchange_id, instrument, wrapper.body.deals,
                   time_received, <<>>)
    ELSE <<>>

(***************************************************************************)
(* book/mod.rs: top of book.                                               *)
(***************************************************************************)
book_ms_epoch_to_datetime_utc(ms) ==
    IF ms < 0
    THEN SocketError("Unsupported MexcBookTicker::Timestamp: invalid unix_epoch_ms (negative): {}",
                     to_string(ms), <<>>)
    ELSE LET dt == from_timestamp_millis(ms)
         IN  IF dt.tag = "Some" THEN Ok(dt.val)
             ELSE SocketError("Unsupported MexcBookTicker::Timestamp: invalid unix_epoch_ms: {}",
                              to_string(ms), <<>>)

\* str::parse::<Decimal>() (rust_decimal): [sign] digits [ "." digits ] with at
\* least one digit; no keywords, no exponent.  Kept as sign, mant / 10^scale.
ParseDecimal(s) ==
    LET signed == s # <<>> /\ s[1] \in {"+", "-"}
        neg  == s # <<>> /\ s[1] = "-"
        body == IF signed THEN Tail(s) ELSE s
        dot  == DotIndex(body)
        int  == IF dot = 0 THEN body ELSE SubSeq(body, 1, dot - 1)
        frac == IF dot = 0 THEN <<>> ELSE SubSeq(body, dot + 1, Len(body))
    IN  IF s = <<>> THEN [tag |-> "Err", val |-> "Invalid decimal: empty"]
        ELSE IF ~(AllDigits(int) /\ AllDigits(frac))
        THEN [tag |-> "Err", val |-> "Invalid decimal: unknown character"]
        ELSE IF Len(int) + Len(frac) = 0
        THEN [tag |-> "Err", val |-> "Invalid decimal: no digits found"]
        ELSE Ok([neg |-> neg, mant |-> DigitsValue(int \o frac), scale |-> Len(frac)])

parse_level(price, qty) ==
    LET p == ParseDecimal(price)
        amount == ParseDecimal(qty)
    IN  IF IsErr(p)
        THEN SocketError("Failed to parse price from MEXC agg book ticker: '{}', error: {}",
                         price, p.val)
        ELSE IF IsErr(amount)
        THEN SocketError("Failed to parse quantity from MEXC agg book ticker: '{}', error: {}",
                         qty, amount.val)
        ELSE Ok([price |-> p.val, amount |-> amount.val])

\* wrapper.send_time.or(wrapper.create_time)
\*     .and_then(|ms| ms_epoch_to_datetime_utc(ms).ok()).unwrap_or(time_received)
BookExchangeTime(wrapper, time_received) ==
    LET picked == IF wrapper.send_time.tag = "Some" THEN wrapper.send_time
                  ELSE wrapper.create_time
        converted == IF picked.tag = "Some" /\ IsOk(book_ms_epoch_to_datetime_utc(picked.val))
                     THEN Some(book_ms_epoch_to_datetime_utc(picked.val).val)
                     ELSE None
    IN  IF converted.tag = "Some" THEN converted.val ELSE time_received

\* a mapper that keeps the side of the book that parsed
BooksFrom_PartialBook(exchange_id, instrument, wrapper, time_received) ==
    IF wrapper.body.kind = "PublicAggreBookTicker"
    THEN LET exchange_time == BookExchangeTime(wrapper, time_received)
             best_bid == parse_level(wrapper.body.bid_price, wrapper.body.bid_quantity)
             best_ask == parse_level(wrapper.body.ask_price, wrapper.body.ask_quantity)
         IN  IF IsErr(best_bid) THEN <<best_bid>>
             ELSE <<Ok([time_exchange |-> exchange_time,
                        time_received |-> time_received,
                        exchange      |-> exchange_id,
                        instrument    |-> instrument,
                        kind          |-> [last_update_time |-> exchange_time,
                                           best_bid |-> Some(best_bid.val),
                                           best_ask |-> IF IsOk(best_ask)
                                                        THEN Some(best_ask.val)
                                                        ELSE None]])>>
    ELSE <<>>

\* a mapper that reports every body it does not handle as an error
BooksFrom_ErrorOnOtherBody(exchange_id, instrument, wrapper, time_received) ==
    IF wrapper.body.kind = "PublicAggreBookTicker"
    THEN LET exchange_time == BookExchangeTime(wrapper, time_received)
             best_bid == parse_level(wrapper.body.bid_price, wrapper.body.bid_quantity)
             best_ask == parse_level(wrapper.body.ask_price, wrapper.body.ask_quantity)
         IN  IF IsErr(best_bid) THEN <<best_bid>>
             ELSE IF IsErr(best_ask) THEN <<best_ask>>
             ELSE <<Ok([time_exchange |-> exchange_time,
                        time_received |-> time_received,
                        exchange      |-> exchange_id,
                        instrument    |-> instrument,
                        kind          |-> [last_update_time |-> exchange_time,
                                           best_bid |-> Some(best_bid.val),
                                           best_ask |-> Some(best_ask.val)]])>>
    ELSE IF wrapper.body.kind = "None" THEN <<>>
    ELSE <<SocketError("Unsupported MEXC message body: {}", <<>>, <<>>)>>

\* a mapper whose book carries the receipt time as its last update time
BooksFrom_ReceiptAsUpdateTime(exchange_id, instrument, wrapper, time_received) ==
    IF wrapper.body.kind = "PublicAggreBookTicker"
    THEN LET exchange_time == BookExchangeTime(wrapper, time_received)
             best_bid == parse_level(wrapper.body.bid_price, wrapper.body.bid_quantity)
             best_ask == parse_level(wrapper.body.ask_price, wrapper.body.ask_quantity)
         IN  IF IsErr(best_bid) THEN <<best_bid>>
             ELSE IF IsErr(best_ask) THEN <<best_ask>>
             ELSE <<Ok([time_exchange |-> exchange_time,
                        time_received |-> time_received,
                        exchange      |-> exchange_id,
                        instrument    |-> instrument,
                        kind          |-> [last_update_time |-> time_received,
                                           best_bid |-> Some(best_bid.val),
                                           best_ask |-> Some(best_ask.val)]])>>
    ELSE <<>>

\* From<(ExchangeId, InstrumentKey, PushDataV3ApiWrapper)> for
\* MarketIter<InstrumentKey, OrderBookL1>
BooksFrom(exchange_id, instrument, wrapper, time_received) ==
    IF wrapper.body.kind = "PublicAggreBookTicker"
    THEN LET exchange_time == BookExchangeTime(wrapper, time_received)
             best_bid == parse_level(wrapper.body.bid_price, wrapper.body.bid_quantity)
             best_ask == parse_level(wrapper.body.ask_price, wrapper.body.ask_quantity)
         IN  IF IsErr(best_bid) THEN <<best_bid>>
             ELSE IF IsErr(best_ask) THEN <<best_ask>>
             ELSE <<Ok([time_exchange |-> exchange_time,
                        time_received |-> time_received,
                        exchange      |-> exchange_id,
                        instrument    |-> instrument,
                        kind          |-> [last_update_time |-> exchange_time,
                                           best_bid |-> Some(best_bid.val),
                                           best_ask |-> Some(best_ask.val)]])>>
    ELSE <<>>

(***************************************************************************)
(* market.rs, channel.rs: identifiers.                                     *)
(***************************************************************************)
UpperChar(c) ==
    IF IndexIn(c, LowerLetters) # 0 THEN UpperLetters[IndexIn(c, LowerLetters)] ELSE c

\* str::to_uppercase on the characters of the model (ASCII)
ToUppercase(s) == [i \in 1..Len(s) |-> UpperChar(s[i])]

mexc_market_NoUppercase(base, quote) == base \o quote

\* format_smolstr!("{base}{quote}").to_uppercase_smolstr()
mexc_market(base, quote) == ToUppercase(base \o quote)

\* Identifier<MexcMarket> for the three instrument types a Subscription can hold
MarketId(subscription) ==
    IF subscription.instrument.type = "MarketDataInstrument"
    THEN mexc_market(subscription.instrument.base, subscription.instrument.quote)
    ELSE IF subscription.instrument.type = "Keyed"
    THEN mexc_market(subscription.instrument.value.base, subscription.instrument.value.quote)
    ELSE subscription.instrument.name_exchange

AGGREGATED_TRADES_PB == <<"s", "p", "o", "t", "@", "p", "u", "b", "l", "i", "c", ".", "a", "g", "g", "r", "e", ".", "d", "e", "a", "l", "s", ".", "v", "3", ".", "a", "p", "i", ".", "p", "b">>

(***************************************************************************)
(* mod.rs: the subscription request builder.                               *)
(***************************************************************************)
\* MexcAggInterval::default()
MexcAggIntervalDefault == "Ms100"

agg_interval_to_str(interval) ==
    IF interval = "Ms10" THEN <<"1", "0", "m", "s">> ELSE <<"1", "0", "0", "m", "s">>

\* serde_json's text of a string: quoted, with quote and backslash escaped
RECURSIVE JsonEscape(_)
JsonEscape(s) ==
    IF s = <<>> THEN <<>>
    ELSE (IF Head(s) \in {"\"", "\\"} THEN <<"\\", Head(s)>> ELSE <<Head(s)>>)
         \o JsonEscape(Tail(s))

JsonString(s) == <<"\"">> \o JsonEscape(s) \o <<"\"">>

RECURSIVE JsonStrings(_)
JsonStrings(list) ==
    IF list = <<>> THEN <<>>
    ELSE IF Len(list) = 1 THEN JsonString(list[1])
    ELSE JsonString(list[1]) \o <<",">> \o JsonStrings(Tail(list))

\* the text of MexcWsMethod::Subscription
MethodText(method) ==
    IF method = "Subscription" THEN <<"S", "U", "B", "S", "C", "R", "I", "P", "T", "I", "O", "N">> ELSE <<"U", "N", "S", "U", "B", "S", "C", "R", "I", "P", "T", "I", "O", "N">>

\* Serialize for MexcWsSub: {"method":"SUBSCRIPTION","params":[...]}
SerializeMexcWsSub(message) ==
    <<"{">> \o JsonString(<<"m", "e", "t", "h", "o", "d">>) \o <<":">>
            \o JsonString(MethodText(message.method)) \o <<",">>
            \o JsonString(<<"p", "a", "r", "a", "m", "s">>) \o <<":">>
            \o <<"[">> \o JsonStrings(message.params) \o <<"]">> \o <<"}">>

Topic(sub, interval) ==
    sub.channel \o <<"@">> \o agg_interval_to_str(interval) \o <<"@">> \o sub.market

Topics_Deduplicated(exchange_subs) ==
    LET all == [i \in 1..Len(exchange_subs) |-> Topic(exchange_subs[i], MexcAggIntervalDefault)]
    IN  IF Len(all) >= 2 /\ all[1] = all[2] THEN Tail(all) ELSE all

Topics(exchange_subs) ==
    [i \in 1..Len(exchange_subs) |-> Topic(exchange_subs[i], MexcAggIntervalDefault)]

\* a builder that sends one frame per subscription
requests_FramePerSub(exchange_subs, serialized_ok) ==
    IF ~serialized_ok THEN <<>>
    ELSE [i \in 1..Len(exchange_subs) |->
            [type |-> "Text",
             payload |-> SerializeMexcWsSub([method |-> "Subscription",
                                             params |-> Topics(<<exchange_subs[i]>>)])]]

\* a builder that sends an empty text frame when the message does not serialize
requests_EmptyFrameOnFailure(exchange_subs, serialized_ok) ==
    IF exchange_subs = <<>> THEN <<>>
    ELSE LET subscription_message == [method |-> "Subscription",
                                      params |-> Topics(exchange_subs)]
         IN  IF serialized_ok
             THEN <<[type |-> "Text", payload |-> SerializeMexcWsSub(subscription_message)]>>
             ELSE <<[type |-> "Text", payload |-> <<>>]>>

\* Mexc::requests; serialized_ok is whether serde_json::to_string returned Ok
requests(exchange_subs, serialized_ok) ==
    IF exchange_subs = <<>> THEN <<>>
    ELSE LET subscription_message == [method |-> "Subscription",
                                      params |-> Topics(exchange_subs)]
         IN  IF serialized_ok
             THEN <<[type |-> "Text", payload |-> SerializeMexcWsSub(subscription_message)]>>
             ELSE <<>>

\* a count of the frames sent rather than of the subscriptions made
expected_responses_FrameCount(subscriptions) ==
    IF DOMAIN subscriptions = {} THEN 0 ELSE 1

\* Mexc::expected_responses: subscriptions.0.len(), the number of entries of
\* the map from SubscriptionId to InstrumentKey
expected_responses(subscriptions) == Cardinality(DOMAIN subscriptions)

(***************************************************************************)
(* Inputs.                                                                 *)
(***************************************************************************)
\* Utc::now() readings
NowSamples == {[secs |-> 2, nsecs |-> 0], [secs |-> 2, nsecs |-> 400000000]}

\* (exchange_id, instrument) pairs handed to the mappers
Contexts == {<<"Mexc", "ETH_USDT">>, <<"BinanceSpot", "BTC_USDT">>}

TradeTypeSamples == (-2..MaxTradeType) \cup {-2147483647, 2147483647}

MsSamples == {-ChronoMaxMs - 1, -1000, -1, 0, 1, 999, 1000, 1500,
              ChronoMaxMs, ChronoMaxMs + 1, 2147483647}

PriceTexts == {<<"1", ".", "5">>,
               <<"5", "0", "0", "0", "0", ".", "5", "0">>,
               <<"-", "1">>,
               <<"N", "a", "N">>,
               <<"i", "n", "f">>,
               <<"n", "o", "t", "_", "a", "_", "f", "l", "o", "a", "t">>,
               <<>>,
               <<".", "5">>}

QuantityTexts == {<<"2">>,
                  <<"0", ".", "0", "0", "1">>,
                  <<"0", ".", "5">>,
                  <<"-", "0", ".", "5">>,
                  <<"-", "i", "n", "f">>,
                  <<"x">>}

\* every combination of the sample fields: the inputs of the item mappers
DealItem(price, quantity, trade_type, time) ==
    [price |-> price, quantity |-> quantity, trade_type |-> trade_type, time |-> time]

DealItems ==
    {DealItem(price, quantity, trade_type, time) :
        price \in PriceTexts, quantity \in QuantityTexts, trade_type \in 0..3,
        time \in {-1, 0, 1500, ChronoMaxMs + 1}}

\* the items batches are built from: two that map, and one per way of failing
BatchItems ==
    {DealItem(<<"1", ".", "5">>, <<"2">>, 1, 1500),
     DealItem(<<"3">>, <<"0", ".", "5">>, 2, 0),
     DealItem(<<"n", "o", "t", "_", "a", "_", "f", "l", "o", "a", "t">>, <<"2">>, 1, 1500),
     DealItem(<<"1", ".", "5">>, <<"2">>, 3, 1500),
     DealItem(<<"1", ".", "5">>, <<"2">>, 2, -1),
     DealItem(<<"-", "1">>, <<"2">>, 1, 1500)}

SeqsUpTo(S, n) == UNION {[1..k -> S] : k \in 0..n}

TradeBodies(n) ==
    {[kind |-> k, deals |-> d] : k \in {"PublicDeals", "PublicAggreDeals"},
                                 d \in SeqsUpTo(BatchItems, n)}

\* bodies neither mapper of this adapter handles: no body, a candle, and an
\* order-book message standing for every other variant of the oneof
UnmodelledBodies == {[kind |-> "None"], [kind |-> "PublicSpotKline"],
                     [kind |-> "PublicLimitDepths"]}

DecimalTexts == {<<"1", "0", "0">>, <<"1", ".", "5">>, <<"x">>, <<>>}

TickerBodies ==
    {[kind |-> "PublicAggreBookTicker", bid_price |-> bp, bid_quantity |-> bq,
      ask_price |-> ap, ask_quantity |-> aq] :
        bp \in DecimalTexts, bq \in DecimalTexts, ap \in DecimalTexts, aq \in DecimalTexts}

SendTimes == {None, Some(-1), Some(1200), Some(ChronoMaxMs + 1)}

CreateTimes == {None, Some(-1), Some(1000)}

Wrappers(bodies) ==
    [create_time : CreateTimes, send_time : SendTimes, body : bodies]

AssetNames == {<<"e", "t", "h">>, <<"u", "s", "d", "t">>, <<"b", "t", "c">>, <<"E", "t", "h">>, <<"U", "S", "D", "T">>}

ExchangeNames == {<<"E", "T", "H", "U", "S", "D", "T">>, <<"e", "t", "h", "_", "u", "s", "d", "t">>, <<"B", "t", "c", "U", "s", "d", "t">>}

\* the instruments a Subscription<Mexc, _, Kind> can hold
Instruments ==
    {[type |-> "MarketDataInstrument", base |-> b, quote |-> q] :
        b \in AssetNames, q \in AssetNames}
    \cup {[type |-> "Keyed", key |-> "k", value |-> [base |-> b, quote |-> q]] :
            b \in AssetNames, q \in AssetNames}
    \cup {[type |-> "MarketInstrumentData", key |-> "k", name_exchange |-> n] :
            n \in ExchangeNames}

ChannelSamples == {AGGREGATED_TRADES_PB, <<"C">>}

MarketSamples == {<<"E", "T", "H", "U", "S", "D", "T">>, <<"B", "T", "C", "U", "S", "D", "T">>, <<"e", "t", "h", "_", "u", "s", "d", "t">>}

ExchangeSubs == [channel : ChannelSamples, market : MarketSamples]

\* Map<InstrumentKey>: one instrument key per subscription id.  A subscription
\* id is made of a channel and a market, so the pair stands for it.
SubscriptionMaps ==
    UNION {[ids -> {"ETH_USDT", "BTC_USDT"}] :
              ids \in {S \in SUBSET ExchangeSubs : Cardinality(S) <= MaxEntries}}

Init ==
    /\ call = [op |-> "none"]
    /\ ret = [nothing |-> <<>>]

Idle == call.op = "none"

\* a direct call of mexc_trade_type_to_side
CallTradeTypeToSide ==
    /\ Idle
    /\ \E code \in TradeTypeSamples :
        /\ call' = [op |-> "mexc_trade_type_to_side", trade_type |-> code]
        /\ ret' = [side |-> mexc_trade_type_to_side(code)]

\* a direct call of trade.rs's ms_epoch_to_datetime_utc
CallMsEpochToDatetimeUtc ==
    /\ Idle
    /\ \E ms \in MsSamples :
        /\ call' = [op |-> "ms_epoch_to_datetime_utc", ms |-> ms]
        /\ ret' = [datetime |-> trade_ms_epoch_to_datetime_utc(ms)]

\* a direct call of one of the two item mappers
CallMapItem ==
    /\ Idle
    /\ \E kind \in {"PublicDeals", "PublicAggreDeals"}, ctx \in Contexts,
          item \in DealItems, now \in NowSamples :
        /\ call' = [op |-> "map_item", body_kind |-> kind, exchange_id |-> ctx[1],
                    instrument |-> ctx[2], deal_item |-> item, time_received |-> now]
        /\ ret' = [trade |-> MapItemOfBody(kind, ctx[1], ctx[2], item, now)]

\* transform of an envelope by the public-trade mapper; Utc::now() is read once
TransformTrades ==
    /\ Idle
    /\ \E ctx \in Contexts, now \in NowSamples,
          wrapper \in Wrappers(TradeBodies(MaxDeals) \cup UnmodelledBodies \cup TickerBodies) :
        /\ call' = [op |-> "transform_trades", exchange_id |-> ctx[1], instrument |-> ctx[2],
                    wrapper |-> wrapper, time_received |-> now]
        /\ ret' = [trades |-> TradesFrom(ctx[1], ctx[2], wrapper, now)]

\* transform of an envelope by the top-of-book mapper
TransformBookL1 ==
    /\ Idle
    /\ \E ctx \in Contexts, now \in NowSamples,
          wrapper \in Wrappers(TickerBodies \cup UnmodelledBodies \cup TradeBodies(1)) :
        /\ call' = [op |-> "transform_book_l1", exchange_id |-> ctx[1], instrument |-> ctx[2],
                    wrapper |-> wrapper, time_received |-> now]
        /\ ret' = [books |-> BooksFrom(ctx[1], ctx[2], wrapper, now)]

\* Identifier<MexcMarket>::id of a subscription
CallMarketId ==
    /\ Idle
    /\ \E instrument \in Instruments :
        /\ call' = [op |-> "market_id", subscription |-> [exchange |-> "Mexc",
                                                           instrument |-> instrument]]
        /\ ret' = [market |-> MarketId([exchange |-> "Mexc", instrument |-> instrument])]

\* Mexc::requests on a list of (channel, market) pairs
CallRequests ==
    /\ Idle
    /\ \E exchange_subs \in SeqsUpTo(ExchangeSubs, MaxSubs), serialized_ok \in BOOLEAN :
        /\ call' = [op |-> "requests", exchange_subs |-> exchange_subs,
                    serialized_ok |-> serialized_ok]
        /\ ret' = [frames |-> requests(exchange_subs, serialized_ok)]

\* Mexc::expected_responses on a subscription map
CallExpectedResponses ==
    /\ Idle
    /\ \E subscriptions \in SubscriptionMaps :
        /\ call' = [op |-> "expected_responses", subscriptions |-> subscriptions]
        /\ ret' = [expected |-> expected_responses(subscriptions)]

\* the call returns; nothing of it is kept
Return ==
    /\ ~Idle
    /\ call' = [op |-> "none"]
    /\ ret' = [nothing |-> <<>>]

Next ==
    \/ CallTradeTypeToSide
    \/ CallMsEpochToDatetimeUtc
    \/ CallMapItem
    \/ TransformTrades
    \/ TransformBookL1
    \/ CallMarketId
    \/ CallRequests
    \/ CallExpectedResponses
    \/ Return

Spec == Init /\ [][Next]_vars

(***************************************************************************)
(* Properties.                                                             *)
(***************************************************************************)
IsTradeBody(body) == body.kind \in {"PublicDeals", "PublicAggreDeals"}

\* an item every check of the item mappers accepts
WellFormed(item) ==
    /\ IsOk(ParseF64(item.price))
    /\ IsOk(ParseF64(item.quantity))
    /\ item.trade_type \in {1, 2}
    /\ item.time >= 0 /\ item.time <= ChronoMaxMs

\* C1: the public-trade mapper returns one result per item of a raw or
\* aggregated batch, the i-th being what the i-th item maps to on its own; a
\* batch whose only fault is one malformed price yields an error at that place
\* and trades, in the order of the batch, everywhere else.
C1_BatchIsolation ==
    (call.op = "transform_trades" /\ IsTradeBody(call.wrapper.body)) =>
        LET deals == call.wrapper.body.deals
            bad == {i \in 1..Len(deals) : IsErr(ParseF64(deals[i].price))}
        IN  /\ Len(ret.trades) = Len(deals)
            /\ \A i \in 1..Len(deals) :
                   ret.trades[i] = MapItemOfBody(call.wrapper.body.kind, call.exchange_id,
                                          call.instrument, deals[i], call.time_received)
            /\ (Cardinality(bad) = 1 /\ \A i \in (1..Len(deals)) \ bad : WellFormed(deals[i])) =>
                   /\ Cardinality({i \in 1..Len(ret.trades) : IsErr(ret.trades[i])}) = 1
                   /\ \A i \in bad : IsErr(ret.trades[i])
                   /\ \A i \in (1..Len(deals)) \ bad :
                          /\ IsOk(ret.trades[i])
                          /\ ret.trades[i].val.kind.id = to_string(deals[i].time)
                          /\ ret.trades[i].val.kind.side =
                                 (IF deals[i].trade_type = 1 THEN "Buy" ELSE "Sell")

C1_Witness ==
    /\ call.op = "transform_trades"
    /\ IsTradeBody(call.wrapper.body)
    /\ Len(call.wrapper.body.deals) = 3
    /\ IsErr(ParseF64(call.wrapper.body.deals[2].price))
    /\ WellFormed(call.wrapper.body.deals[1])
    /\ WellFormed(call.wrapper.body.deals[3])
    /\ call.wrapper.body.deals[1] # call.wrapper.body.deals[3]
    /\ Len(ret.trades) = 3
    /\ IsOk(ret.trades[1]) /\ IsErr(ret.trades[2]) /\ IsOk(ret.trades[3])

IsTicker(body) == body.kind = "PublicAggreBookTicker"

ValidMs(opt) == opt.tag = "Some" /\ opt.val >= 0 /\ opt.val <= ChronoMaxMs

\* C2: the exchange time of a top-of-book event is the send_time when that is
\* present and valid, else the create_time when that is present and valid, else
\* the receipt time.
C2_FallbackChain ==
    (call.op = "transform_book_l1" /\ IsTicker(call.wrapper.body)
        /\ Len(ret.books) = 1 /\ IsOk(ret.books[1])) =>
        ret.books[1].val.time_exchange =
            IF ValidMs(call.wrapper.send_time)
            THEN from_timestamp_millis(call.wrapper.send_time.val).val
            ELSE IF ValidMs(call.wrapper.create_time)
            THEN from_timestamp_millis(call.wrapper.create_time.val).val
            ELSE call.time_received

AnyLevelTextFails(body) ==
    \/ IsErr(ParseDecimal(body.bid_price))
    \/ IsErr(ParseDecimal(body.bid_quantity))
    \/ IsErr(ParseDecimal(body.ask_price))
    \/ IsErr(ParseDecimal(body.ask_quantity))

\* C3: a ticker with a bid or ask text that does not parse yields exactly one
\* result, an error; and every top-of-book event carries both best_bid and
\* best_ask.
C3_AllOrNothing ==
    call.op = "transform_book_l1" =>
        /\ (IsTicker(call.wrapper.body) /\ AnyLevelTextFails(call.wrapper.body)) =>
               Len(ret.books) = 1 /\ IsErr(ret.books[1])
        /\ \A i \in 1..Len(ret.books) :
               IsOk(ret.books[i]) => /\ ret.books[i].val.kind.best_bid.tag = "Some"
                                     /\ ret.books[i].val.kind.best_ask.tag = "Some"

C3_Witness ==
    /\ call.op = "transform_book_l1"
    /\ IsTicker(call.wrapper.body)
    /\ IsOk(ParseDecimal(call.wrapper.body.bid_price))
    /\ IsOk(ParseDecimal(call.wrapper.body.bid_quantity))
    /\ IsOk(ParseDecimal(call.wrapper.body.ask_price))
    /\ IsErr(ParseDecimal(call.wrapper.body.ask_quantity))
    /\ Len(ret.books) = 1
    /\ IsErr(ret.books[1])

\* C4: the public-trade mapper returns the empty sequence for an envelope with
\* no body or with a body that is not a raw or aggregated trade batch, whatever
\* its create_time and send_time.
C4_UnmodelledBodyIgnored ==
    (call.op = "transform_trades" /\ ~IsTradeBody(call.wrapper.body)) => ret.trades = <<>>

C4_Witness ==
    /\ call.op = "transform_trades"
    /\ call.wrapper.body.kind = "PublicSpotKline"
    /\ call.wrapper.send_time.tag = "Some"
    /\ ret.trades = <<>>

HasPrefix(s, prefix) ==
    Len(s) >= Len(prefix) /\ SubSeq(s, 1, Len(prefix)) = prefix

SubscriptionMethodPrefix == <<"{", "\"", "m", "e", "t", "h", "o", "d", "\"", ":", "\"", "S", "U", "B", "S", "C", "R", "I", "P", "T", "I", "O", "N", "\"", ",">>

OneSubscriptionFrame(frames) ==
    /\ Len(frames) = 1
    /\ frames[1].type = "Text"
    /\ HasPrefix(frames[1].payload, SubscriptionMethodPrefix)

\* C5 as claimed: requests() returns no frame for an empty list and exactly one
\* text frame with method "SUBSCRIPTION" for every non-empty list.
C5_OneFrameAlways ==
    call.op = "requests" =>
        /\ call.exchange_subs = <<>> => ret.frames = <<>>
        /\ call.exchange_subs # <<>> => OneSubscriptionFrame(ret.frames)

\* C5, amended: requests() returns no frame for an empty list; for a non-empty
\* list it returns exactly one text frame with method "SUBSCRIPTION" when the
\* control message serializes, and no frame when it does not.
C5_OneFrameWhenSerialized ==
    call.op = "requests" =>
        /\ call.exchange_subs = <<>> => ret.frames = <<>>
        /\ (call.exchange_subs # <<>> /\ call.serialized_ok) => OneSubscriptionFrame(ret.frames)
        /\ (call.exchange_subs # <<>> /\ ~call.serialized_ok) => ret.frames = <<>>

C5_Witness ==
    /\ call.op = "requests"
    /\ Len(call.exchange_subs) = 2
    /\ call.serialized_ok
    /\ Len(ret.frames) = 1

\* whether the character at place i of a JSON text is escaped by a backslash
RECURSIVE IsEscaped(_, _)
IsEscaped(text, i) == i > 1 /\ text[i - 1] = "\\" /\ ~IsEscaped(text, i - 1)

\* the n-th smallest element of a set of places
NthOf(places, n) == CHOOSE p \in places : Cardinality({q \in places : q < p}) = n - 1

\* the characters of s at the given places, in order
Pick(s, places) == [n \in 1..Cardinality(places) |-> s[NthOf(places, n)]]

\* the content of the JSON string between two quotes, escapes removed
JsonContent(text, open, close) ==
    LET inner == SubSeq(text, open + 1, close - 1)
    IN  Pick(inner, {i \in 1..Len(inner) : ~(inner[i] = "\\" /\ ~IsEscaped(inner, i))})

\* the strings of a JSON array of strings, read back from its text
JsonStringsOf(text) ==
    LET quotes == {i \in 1..Len(text) : text[i] = "\"" /\ ~IsEscaped(text, i)}
    IN  [n \in 1..(Cardinality(quotes) \div 2) |->
            JsonContent(text, NthOf(quotes, 2 * n - 1), NthOf(quotes, 2 * n))]

\* the params of a frame: the array that follows the first "[" of its text
ParamsOf(payload) ==
    LET open == CHOOSE i \in 1..Len(payload) :
                    payload[i] = "[" /\ \A j \in 1..(i - 1) : payload[j] # "["
    IN  JsonStringsOf(SubSeq(payload, open + 1, Len(payload) - 2))

\* C6: the params of the control message are one topic per pair, in the order
\* of the input and with duplicates kept, the i-th being
\* "<channel_i>@100ms@<market_i>".
C6_TopicList ==
    (call.op = "requests" /\ Len(ret.frames) = 1) =>
        LET params == ParamsOf(ret.frames[1].payload)
        IN  /\ Len(params) = Len(call.exchange_subs)
            /\ \A i \in 1..Len(call.exchange_subs) :
                   params[i] = call.exchange_subs[i].channel
                                 \o <<"@", "1", "0", "0", "m", "s", "@">>
                                 \o call.exchange_subs[i].market

C6_Witness ==
    /\ call.op = "requests"
    /\ Len(call.exchange_subs) = 2
    /\ call.exchange_subs[1] = call.exchange_subs[2]
    /\ Len(ret.frames) = 1
    /\ Len(ParamsOf(ret.frames[1].payload)) = 2
    /\ ParamsOf(ret.frames[1].payload)[1] = <<"C", "@", "1", "0", "0", "m", "s", "@", "B", "T", "C", "U", "S", "D", "T">>

\* C7: trade type 1 maps to Buy, 2 to Sell, every other code to an
\* unsupported-value error that names the code; only items of code 1 or 2
\* become trades.
C7_SideMapping ==
    /\ call.op = "mexc_trade_type_to_side" =>
           /\ call.trade_type = 1 => ret.side = Ok("Buy")
           /\ call.trade_type = 2 => ret.side = Ok("Sell")
           /\ call.trade_type \notin {1, 2} =>
                  /\ IsErr(ret.side)
                  /\ ret.side.val.fmt = "Unsupported MexcTrade::Side: unknown trade_type: {}"
                  /\ ret.side.val.raw = to_string(call.trade_type)
           /\ call.trade_type = 3 => ret.side.val.raw = <<"3">>
           /\ call.trade_type = -1 => ret.side.val.raw = <<"-", "1">>
    /\ call.op = "map_item" =>
           (IsOk(ret.trade) =>
                /\ call.deal_item.trade_type \in {1, 2}
                /\ ret.trade.val.kind.side = (IF call.deal_item.trade_type = 1 THEN "Buy"
                                              ELSE "Sell"))

C7_Witness ==
    /\ call.op = "mexc_trade_type_to_side"
    /\ call.trade_type = 0
    /\ IsErr(ret.side)
    /\ ret.side.val.raw = <<"0">>

\* C8: a negative millisecond value yields the error of the negative check,
\* whether or not it is in range; a non-negative value in range yields the
\* instant that many milliseconds after the Unix epoch; a non-negative value out
\* of range yields the other, out-of-range error.
C8_TimestampConversion ==
    call.op = "ms_epoch_to_datetime_utc" =>
        /\ call.ms < 0 =>
               /\ IsErr(ret.datetime)
               /\ ret.datetime.val.fmt =
                      "Unsupported MexcTrade::Timestamp: invalid unix_epoch_ms (negative): {}"
               /\ ret.datetime.val.raw = to_string(call.ms)
        /\ (call.ms >= 0 /\ call.ms <= ChronoMaxMs) =>
               /\ IsOk(ret.datetime)
               /\ ret.datetime.val.nsecs \in 0..999999999
               /\ ret.datetime.val.secs * 1000 + ret.datetime.val.nsecs \div 1000000 = call.ms
               /\ ret.datetime.val.nsecs % 1000000 = 0
        /\ call.ms > ChronoMaxMs =>
               /\ IsErr(ret.datetime)
               /\ ret.datetime.val.fmt = "Unsupported MexcTrade::Timestamp: invalid unix_epoch_ms: {}"
               /\ ret.datetime.val.raw = to_string(call.ms)

C8_Witness ==
    /\ call.op = "ms_epoch_to_datetime_utc"
    /\ call.ms < -ChronoMaxMs
    /\ IsErr(ret.datetime)
    /\ ret.datetime.val.fmt = "Unsupported MexcTrade::Timestamp: invalid unix_epoch_ms (negative): {}"

NonNegativeFinite(trade) ==
    /\ IsFinite(trade.price) /\ IsNonNegative(trade.price)
    /\ IsFinite(trade.amount) /\ IsNonNegative(trade.amount)

\* C9: every trade the public-trade mapper emits has a price and an amount
\* that are finite and not negative.
C9_NonNegativeFinite ==
    /\ call.op = "map_item" =>
           (IsOk(ret.trade) => NonNegativeFinite(ret.trade.val.kind))
    /\ call.op = "transform_trades" =>
           \A i \in 1..Len(ret.trades) :
               IsOk(ret.trades[i]) => NonNegativeFinite(ret.trades[i].val.kind)

HasAssets(instrument) == instrument.type \in {"MarketDataInstrument", "Keyed"}

BaseOf(instrument) ==
    IF instrument.type = "Keyed" THEN instrument.value.base ELSE instrument.base

QuoteOf(instrument) ==
    IF instrument.type = "Keyed" THEN instrument.value.quote ELSE instrument.quote

IsUpperCase(s) == \A i \in 1..Len(s) : IndexIn(s[i], LowerLetters) = 0

\* C10 as claimed: whatever instrument the subscription holds, its market
\* identifier is in upper case and is uppercase(base ++ quote).
C10_AlwaysUppercaseBaseQuote ==
    call.op = "market_id" =>
        /\ IsUpperCase(ret.market)
        /\ HasAssets(call.subscription.instrument) =>
               ret.market = ToUppercase(BaseOf(call.subscription.instrument)
                                   \o QuoteOf(call.subscription.instrument))

\* C10, amended: for a MarketDataInstrument, keyed or not, the market
\* identifier is uppercase(base ++ quote), in upper case whatever the case of
\* the assets; for a MarketInstrumentData it is the instrument's exchange name,
\* unchanged.
C10_MarketIdByInstrument ==
    call.op = "market_id" =>
        LET instrument == call.subscription.instrument
        IN  /\ HasAssets(instrument) =>
                   /\ ret.market = ToUppercase(BaseOf(instrument) \o QuoteOf(instrument))
                   /\ IsUpperCase(ret.market)
                   /\ Len(ret.market) = Len(BaseOf(instrument)) + Len(QuoteOf(instrument))
                   /\ (BaseOf(instrument) = <<"e", "t", "h">> /\ QuoteOf(instrument) = <<"u", "s", "d", "t">>) =>
                          ret.market = <<"E", "T", "H", "U", "S", "D", "T">>
            /\ ~HasAssets(instrument) => ret.market = instrument.name_exchange

C10_Witness ==
    /\ call.op = "market_id"
    /\ call.subscription.instrument.type = "Keyed"
    /\ call.subscription.instrument.value.base = <<"E", "t", "h">>
    /\ call.subscription.instrument.value.quote = <<"u", "s", "d", "t">>
    /\ ret.market = <<"E", "T", "H", "U", "S", "D", "T">>

\* the lists that hold every element of a set once
Orderings(S) ==
    {subs \in [1..Cardinality(S) -> S] :
        \A i, j \in 1..Cardinality(S) : i # j => subs[i] # subs[j]}

\* C11: expected_responses returns the number of entries of the subscription
\* map, 0 for the empty map; requests() on the same k >= 1 subscriptions, in
\* any order, emits one frame while k responses are expected.
C11_ExpectedResponses ==
    call.op = "expected_responses" =>
        LET ids == DOMAIN call.subscriptions
        IN  /\ ret.expected = Cardinality(ids)
            /\ ids = {} => ret.expected = 0
            /\ \A subs \in Orderings(ids) :
                   ids # {} => /\ Len(requests(subs, TRUE)) = 1
                               /\ Len(Topics(subs)) = ret.expected

C11_Witness ==
    /\ call.op = "expected_responses"
    /\ Cardinality(DOMAIN call.subscriptions) = 3
    /\ ret.expected = 3
    /\ \E subs \in Orderings(DOMAIN call.subscriptions) : Len(requests(subs, TRUE)) = 1

\* the trade a well-formed item is expected to become: nothing of it comes
\* from the envelope
ExpectedTrade(exchange_id, instrument, item, time_received) ==
    [time_exchange |-> [secs |-> item.time \div 1000,
                        nsecs |-> (item.time % 1000) * 1000000],
     time_received |-> time_received,
     exchange      |-> exchange_id,
     instrument    |-> instrument,
     kind          |-> [id     |-> to_string(item.time),
                        price  |-> ParseF64(item.price).val,
                        amount |-> ParseF64(item.quantity).val,
                        side   |-> IF item.trade_type = 1 THEN "Buy" ELSE "Sell"]]

\* C12: an item whose price and quantity parse, whose trade type is 1 or 2 and
\* whose time is a valid non-negative millisecond value becomes exactly one
\* trade: id the decimal text of the time, price and amount the parsed values,
\* side by the code, exchange time epoch + time, exchange and instrument the
\* ones passed in; the envelope's create_time and send_time change nothing.
C12_SuccessfulTrade ==
    /\ (call.op = "map_item" /\ WellFormed(call.deal_item)) =>
           /\ ret.trade = Ok(ExpectedTrade(call.exchange_id, call.instrument, call.deal_item,
                                          call.time_received))
           /\ InstantMs(ret.trade.val.time_exchange) = call.deal_item.time
           /\ (call.deal_item.price = <<"5", "0", "0", "0", "0", ".", "5", "0">>
                  /\ call.deal_item.quantity = <<"0", ".", "0", "0", "1">>) =>
                  /\ ret.trade.val.kind.price = F64("finite", FALSE, 5000050, 2)
                  /\ ret.trade.val.kind.amount = F64("finite", FALSE, 1, 3)
    /\ (call.op = "transform_trades" /\ IsTradeBody(call.wrapper.body)) =>
           LET deals == call.wrapper.body.deals
           IN  /\ Len(ret.trades) = Len(deals)
               /\ \A i \in 1..Len(deals) :
                      WellFormed(deals[i]) =>
                          ret.trades[i] = Ok(ExpectedTrade(call.exchange_id, call.instrument,
                                                           deals[i], call.time_received))

C12_Witness ==
    /\ call.op = "transform_trades"
    /\ call.wrapper.body.kind = "PublicAggreDeals"
    /\ Len(call.wrapper.body.deals) = 1
    /\ WellFormed(call.wrapper.body.deals[1])
    /\ call.wrapper.send_time = Some(1200)
    /\ call.wrapper.create_time = Some(1000)
    /\ Len(ret.trades) = 1
    /\ IsOk(ret.trades[1])
    /\ InstantMs(ret.trades[1].val.time_exchange) = 1500
    /\ ret.trades[1].val.kind.id = <<"1", "5", "0", "0">>

\* C13: a ticker whose four bid/ask texts parse and whose send_time is valid
\* becomes exactly one event, with best_bid = {bid price, bid quantity} and
\* best_ask = {ask price, ask quantity} both present, and with last_update_time
\* and the event's exchange time both the instant of send_time.
C13_SuccessfulBook ==
    (call.op = "transform_book_l1" /\ IsTicker(call.wrapper.body)
        /\ ~AnyLevelTextFails(call.wrapper.body) /\ ValidMs(call.wrapper.send_time)) =>
        LET body == call.wrapper.body
            sent == call.wrapper.send_time.val
        IN  /\ Len(ret.books) = 1
            /\ IsOk(ret.books[1])
            /\ ret.books[1].val.kind.best_bid =
                   Some([price |-> ParseDecimal(body.bid_price).val,
                         amount |-> ParseDecimal(body.bid_quantity).val])
            /\ ret.books[1].val.kind.best_ask =
                   Some([price |-> ParseDecimal(body.ask_price).val,
                         amount |-> ParseDecimal(body.ask_quantity).val])
            /\ (body.bid_price = <<"1", "0", "0">> /\ body.ask_quantity = <<"1", ".", "5">>) =>
                   /\ ret.books[1].val.kind.best_bid.val.price =
                          [neg |-> FALSE, mant |-> 100, scale |-> 0]
                   /\ ret.books[1].val.kind.best_ask.val.amount =
                          [neg |-> FALSE, mant |-> 15, scale |-> 1]
            /\ InstantMs(ret.books[1].val.kind.last_update_time) = sent
            /\ ret.books[1].val.kind.last_update_time =
                   [secs |-> sent \div 1000, nsecs |-> (sent % 1000) * 1000000]
            /\ ret.books[1].val.time_exchange = ret.books[1].val.kind.last_update_time
            /\ ret.books[1].val.exchange = call.exchange_id
            /\ ret.books[1].val.instrument = call.instrument

C13_Witness ==
    /\ call.op = "transform_book_l1"
    /\ IsTicker(call.wrapper.body)
    /\ call.wrapper.body.bid_price = <<"1", "0", "0">>
    /\ call.wrapper.body.bid_quantity = <<"1", ".", "5">>
    /\ call.wrapper.body.ask_price = <<"1", ".", "5">>
    /\ call.wrapper.body.ask_quantity = <<"1", "0", "0">>
    /\ call.wrapper.send_time = Some(1200)
    /\ call.wrapper.create_time = Some(1000)
    /\ Len(ret.books) = 1
    /\ IsOk(ret.books[1])
    /\ InstantMs(ret.books[1].val.kind.last_update_time) = 1200

\* C14: when the control message of a non-empty list does not serialize,
\* requests() returns no frame and nothing else: its result is the result for
\* the empty list, so the caller cannot tell the two apart.
C14_SerializationFailureSilent ==
    (call.op = "requests" /\ call.exchange_subs # <<>> /\ ~call.serialized_ok) =>
        /\ DOMAIN ret = {"frames"}
        /\ Len(ret.frames) = 0
        /\ \A serialized_ok \in BOOLEAN : ret = [frames |-> requests(<<>>, serialized_ok)]

C14_Witness ==
    /\ call.op = "requests"
    /\ Len(call.exchange_subs) = 2
    /\ ~call.serialized_ok
    /\ ret.frames = <<>>

\* C15: the top-of-book mapper returns the empty sequence for an envelope with
\* no body or with a body that is not a top-of-book ticker (a trade batch, a
\* candle, any other), and at most one result for any envelope.
C15_BookIgnoresOtherBodies ==
    call.op = "transform_book_l1" =>
        /\ ~IsTicker(call.wrapper.body) => ret.books = <<>>
        /\ Len(ret.books) <= 1

C15_Witness ==
    /\ call.op = "transform_book_l1"
    /\ call.wrapper.body.kind = "PublicAggreDeals"
    /\ Len(call.wrapper.body.deals) = 1
    /\ WellFormed(call.wrapper.body.deals[1])
    /\ call.wrapper.send_time = Some(1200)
    /\ ret.books = <<>>

\* the kind of check an error of an item mapper comes from, by its message
FailedCheck(result) ==
    IF result.val.fmt \in {"Failed to parse price from MEXC deal: '{}', error: {}",
                           "Failed to parse price from MEXC aggregated deal: '{}', error: {}"}
    THEN "price"
    ELSE IF result.val.fmt \in {"Failed to parse quantity from MEXC deal: '{}', error: {}",
                                "Failed to parse quantity from MEXC aggregated deal: '{}', error: {}"}
    THEN "quantity"
    ELSE IF result.val.fmt = "Unsupported MexcTrade::Side: unknown trade_type: {}"
    THEN "trade_type"
    ELSE "time"

\* the first check of the order price, quantity, trade type, time that an item
\* fails, or "none"
FirstFailure(item) ==
    IF IsErr(ParseF64(item.price)) THEN "price"
    ELSE IF IsErr(ParseF64(item.quantity)) THEN "quantity"
    ELSE IF item.trade_type \notin {1, 2} THEN "trade_type"
    ELSE IF item.time < 0 \/ item.time > ChronoMaxMs THEN "time"
    ELSE "none"

\* C16: the checks of one trade item run in the order price, quantity, trade
\* type, time, and the item's single result is the error of the first check
\* that fails, for raw and aggregated items alike: an unparseable price with an
\* unsupported trade type yields the price error, and code 3 with a negative
\* time (price and quantity valid) yields the unsupported trade type error.
C16_ValidationOrder ==
    call.op = "map_item" =>
        LET item == call.deal_item
        IN  /\ IsOk(ret.trade) <=> FirstFailure(item) = "none"
            /\ IsErr(ret.trade) =>
                   /\ FailedCheck(ret.trade) = FirstFailure(item)
                   /\ FirstFailure(item) = "price" => ret.trade.val.raw = item.price
                   /\ FirstFailure(item) = "quantity" => ret.trade.val.raw = item.quantity
                   /\ FirstFailure(item) = "trade_type" =>
                          ret.trade.val.raw = to_string(item.trade_type)
                   /\ FirstFailure(item) = "time" => ret.trade.val.raw = to_string(item.time)
            /\ (IsErr(ParseF64(item.price)) /\ item.trade_type = 3) =>
                   IsErr(ret.trade) /\ FailedCheck(ret.trade) = "price"
            /\ (IsOk(ParseF64(item.price)) /\ IsOk(ParseF64(item.quantity))
                  /\ item.trade_type = 3 /\ item.time < 0) =>
                   /\ IsErr(ret.trade)
                   /\ ret.trade.val.fmt = "Unsupported MexcTrade::Side: unknown trade_type: {}"
                   /\ ret.trade.val.raw = <<"3">>
            /\ ret.trade = MapItemOfBody(IF call.body_kind = "PublicDeals"
                                         THEN "PublicAggreDeals" ELSE "PublicDeals",
                                         call.exchange_id, call.instrument, item,
                                         call.time_received)
                   \/ (IsErr(ret.trade) /\ FailedCheck(ret.trade) \in {"price", "quantity"})

C16_Witness ==
    /\ call.op = "map_item"
    /\ call.body_kind = "PublicDeals"
    /\ IsOk(ParseF64(call.deal_item.price))
    /\ IsOk(ParseF64(call.deal_item.quantity))
    /\ call.deal_item.trade_type = 3
    /\ call.deal_item.time = -1
    /\ IsErr(ret.trade)
    /\ FailedCheck(ret.trade) = "trade_type"

====
